---- MODULE Spec2Model ----
(***************************************************************************)
(* Model of the command router of discord-mods-bot (src/src/commands.rs).  *)
(*                                                                         *)
(* Text is a sequence of one-character strings: "say {msg}" is             *)
(* <<"s","a","y"," ","{","m","s","g","}">>.  An Option is a sequence of    *)
(* length at most one: None is <<>>, Some(x) is <<x>>.  State id s of the  *)
(* automaton is stored at index s + 1 of the sequence of states.  The       *)
(* backtick character cannot be written in a string of this language and   *)
(* is the token named backtick.                                            *)
(*                                                                         *)
(* crate::state_machine (CharacterSet, StateMachine) is used by            *)
(* commands.rs but its source is not part of src/; it is modelled from     *)
(* sections 3, 4.1 and 4.2 of the specification.                           *)
(***************************************************************************)
EXTENDS Naturals, Sequences, FiniteSets, TLC

VARIABLES
    state_machine,  \* Commands.state_machine: the shared automaton
    menu,           \* Commands.menu: Option of a set of <<cmd, desc, guard>>
    registered,     \* the registrations made so far, in order (the "Adding command" log)
    extracted,      \* the values returned by the calls of menu(), in order
    call,           \* "none" | "process" | "execute": the kind of the latest call served
    message,        \* msg.content of the latest call
    own,            \* msg.is_own(&cx) of the latest call
    matched,        \* Option of the Match returned by state_machine.process
    pc,             \* position inside execute: "idle" | "authorize" | "call" | "reply"
    guardResult,    \* Option of [result, params]: what authorize returned, and on which params
    handlerCalls,   \* the calls of matched.handler.call in this dispatch: [ptr, params] each
    unauthCalls,    \* number of api::send_reply calls in this dispatch
    errors,         \* number of error!(..) reports in this dispatch
    dispatches      \* the calls of execute in flight on several threads, each with its locals

vars == <<state_machine, menu, registered, extracted, call, message, own, matched, pc,
          guardResult, handlerCalls, unauthCalls, errors, dispatches>>

backtick == "BACKTICK"

None == <<>>
Some(x) == <<x>>

(***************************************************************************)
(* Slices and prefix/suffix tests of text (Rust str methods).              *)
(***************************************************************************)
\* &s[a..b] with 0-based, end-exclusive bounds
Slice(s, a, b) == SubSeq(s, a + 1, b)

starts_with(s, p) == Len(s) >= Len(p) /\ SubSeq(s, 1, Len(p)) = p

ends_with(s, p) == Len(s) >= Len(p) /\ SubSeq(s, Len(s) - Len(p) + 1, Len(s)) = p

(***************************************************************************)
(* CharacterSet (specification 3 and 4.1): Literal(char), Include(set) or  *)
(* ExcludeAll(set); equality is structural.                                *)
(***************************************************************************)
from_char(ch) == [tag |-> "Literal", set |-> {ch}]

any == [tag |-> "ExcludeAll", set |-> {}]

empty_set == [tag |-> "Include", set |-> {}]

insert(cs, ch) ==
    IF cs.tag = "ExcludeAll"
    THEN [tag |-> "ExcludeAll", set |-> cs.set \ {ch}]
    ELSE [tag |-> "Include", set |-> cs.set \cup {ch}]

remove(cs, ch) ==
    IF cs.tag = "ExcludeAll"
    THEN [tag |-> "ExcludeAll", set |-> cs.set \cup {ch}]
    ELSE [tag |-> "Include", set |-> cs.set \ {ch}]

accepts(cs, ch) ==
    IF cs.tag = "ExcludeAll" THEN ch \notin cs.set ELSE ch \in cs.set

(***************************************************************************)
(* StateMachine (specification 3 and 4.2).  The class of an edge is the    *)
(* class its target state was created with (expected), which is why        *)
(* add_next_state takes only the two state ids.                            *)
(***************************************************************************)
NewState(cs) ==
    [expected |-> cs, next_states |-> <<>>, is_final_state |-> FALSE,
     start_parse |-> None, end_parse |-> FALSE, handler |-> None]

\* StateMachine::new(): the start state 0 alone
StateMachineNew == <<NewState(empty_set)>>

StateAt(sm, s) == sm[s + 1]

\* the positions, in insertion order, of the edges of s whose class is cs
SameClassEdges(sm, s, cs) ==
    { k \in 1..Len(StateAt(sm, s).next_states) :
        StateAt(sm, StateAt(sm, s).next_states[k]).expected = cs }

Min(S) == CHOOSE x \in S : \A y \in S : x <= y

\* add_next_state(from, to): append an edge from -> to (self-loop or back-edge)
add_next_state(sm, from, to) ==
    [sm EXCEPT ![from + 1].next_states = Append(@, to)]

\* add(state, class): the existing target of a structurally equal edge, or a
\* fresh state; returns the automaton and the target
add(sm, s, cs) ==
    LET same == SameClassEdges(sm, s, cs) IN
    IF same # {}
    THEN [sm |-> sm, state |-> StateAt(sm, s).next_states[Min(same)]]
    ELSE LET fresh == Len(sm) IN
         [sm |-> add_next_state(Append(sm, NewState(cs)), s, fresh),
          state |-> fresh]

start_parse(sm, s, name) == [sm EXCEPT ![s + 1].start_parse = Some(name)]

end_parse(sm, s) == [sm EXCEPT ![s + 1].end_parse = TRUE]

set_final_state(sm, s) == [sm EXCEPT ![s + 1].is_final_state = TRUE]

\* a state keeps only the most recently set binding
set_handler(sm, s, binding) == [sm EXCEPT ![s + 1].handler = Some(binding)]

(***************************************************************************)
(* StateMachine::process (specification 4.2, match): one left-to-right     *)
(* scan from state 0.  TLC evaluates the argument of an operator where it  *)
(* is first used; the recursive walks of this module evaluate each         *)
(* intermediate result before they go on (the test on it is always true),  *)
(* which keeps the evaluation stack short.  Among the current state's edges, in insertion       *)
(* order, the first whose class accepts the character is taken.  Params    *)
(* is a set of <<name, value>> pairs.  A capture opens, with an empty      *)
(* buffer, when the scan enters a state tagged start_parse; a consumed     *)
(* character is appended to the capture whose anchor is the source state   *)
(* of the edge taken, while the scan stays on that state.                  *)
(***************************************************************************)
Names(params) == { p[1] : p \in params }

Lookup(params, name) == (CHOOSE p \in params : p[1] = name)[2]

Put(params, name, value) ==
    { p \in params : p[1] # name } \cup { <<name, value>> }

\* the edges of s, by position, whose class accepts ch
AcceptingEdges(sm, s, ch) ==
    { k \in 1..Len(StateAt(sm, s).next_states) :
        accepts(StateAt(sm, StateAt(sm, s).next_states[k]).expected, ch) }

\* first-inserted edge wins
ChosenEdge(sm, s, ch) == Min(AcceptingEdges(sm, s, ch))

Capture(sm, params, src, tgt, ch) ==
    LET anchor == StateAt(sm, src).start_parse
        entered == StateAt(sm, tgt).start_parse IN
    IF tgt = src
    THEN IF anchor # None /\ anchor[1] \in Names(params)
         THEN Put(params, anchor[1], Append(Lookup(params, anchor[1]), ch))
         ELSE params
    ELSE IF entered # None
         THEN Put(params, entered[1], <<>>)
         ELSE params

RECURSIVE Scan(_, _, _, _, _)
Scan(sm, input, i, s, params) ==
    IF i > Len(input)
    THEN IF StateAt(sm, s).is_final_state /\ StateAt(sm, s).handler # None
         THEN Some([handler |-> StateAt(sm, s).handler[1], params |-> params,
                    state |-> s])
         ELSE None
    ELSE IF AcceptingEdges(sm, s, input[i]) = {}
         THEN None
         ELSE LET t == StateAt(sm, s).next_states[ChosenEdge(sm, s, input[i])]
                  captured == Capture(sm, params, s, t, input[i]) IN
              IF t >= 0 /\ IsFiniteSet(captured)
              THEN Scan(sm, input, i + 1, t, captured)
              ELSE None

process(sm, input) == Scan(sm, input, 1, 0, {})

\* the states visited by the scan of input, start state first; the scan
\* stops where no edge accepts the next character
RECURSIVE Path(_, _, _, _)
Path(sm, input, i, s) ==
    IF i > Len(input) \/ AcceptingEdges(sm, s, input[i]) = {}
    THEN <<s>>
    ELSE LET t == StateAt(sm, s).next_states[ChosenEdge(sm, s, input[i])] IN
         IF t >= 0 THEN <<s>> \o Path(sm, input, i + 1, t) ELSE <<s>>

(***************************************************************************)
(* The segment compilers of commands.rs.  Each returns the automaton and   *)
(* the state the walk is left on.                                          *)
(***************************************************************************)
\* mutant of add_chars: the walk is not advanced, every character is added
\* from the state the text starts at
RECURSIVE add_chars_unthreaded(_, _, _)
add_chars_unthreaded(sm, s, text) ==
    IF text = <<>>
    THEN [sm |-> sm, state |-> s]
    ELSE LET r == add(sm, s, from_char(Head(text))) IN
         IF r.state >= 0
         THEN LET rest == add_chars_unthreaded(r.sm, s, Tail(text)) IN
              [sm |-> rest.sm,
               state |-> IF Tail(text) = <<>> THEN r.state ELSE rest.state]
         ELSE r

\* text.chars().for_each(|ch| state = state_machine.add(state, from_char(ch)))
RECURSIVE add_chars(_, _, _)
add_chars(sm, s, text) ==
    IF text = <<>>
    THEN [sm |-> sm, state |-> s]
    ELSE LET r == add(sm, s, from_char(Head(text)))
             rest == Tail(text) IN
         IF r.state >= 0 /\ Len(rest) >= 0
         THEN add_chars(r.sm, r.state, rest)
         ELSE r

\* n times the literal backtick
RECURSIVE add_backticks(_, _, _)
add_backticks(sm, s, n) ==
    IF n = 0
    THEN [sm |-> sm, state |-> s]
    ELSE LET r == add(sm, s, from_char(backtick)) IN
         IF r.state >= 0 THEN add_backticks(r.sm, r.state, n - 1) ELSE r

\* add(state, class); add_next_state(state, state); start_parse; end_parse
add_capture_loop(sm, s, cs, name) ==
    LET r == add(sm, s, cs) IN
    [sm |-> end_parse(start_parse(add_next_state(r.sm, r.state, r.state),
                                  r.state, name), r.state),
     state |-> r.state]

\* mutant of add_space: the test i > 0 is missing
add_space_always(sm, s, i) ==
    LET r == add(sm, s, insert(from_char(" "), "\n")) IN
    [sm |-> add_next_state(r.sm, r.state, r.state), state |-> r.state]

add_space(sm, s, i) ==
    IF i > 0
    THEN LET r == add(sm, s, insert(from_char(" "), "\n")) IN
         [sm |-> add_next_state(r.sm, r.state, r.state), state |-> r.state]
    ELSE [sm |-> sm, state |-> s]

add_help_menu(sm, cmd, s) ==
    LET a == add_chars(sm, s, <<"?", "h", "e", "l", "p">>)
        b == add_space(a.sm, a.state, 1) IN
    add_chars(b.sm, b.state, cmd)

add_dynamic_segment(sm, name, s) ==
    add_capture_loop(sm, s, remove(any, " "), name)

add_remaining_segment(sm, name, s) ==
    add_capture_loop(sm, s, any, name)

add_code_segment_multi_line(sm, name, s) ==
    LET a == add_backticks(sm, s, 3)
        lambda == a.state
        b == add(a.sm, a.state, remove(remove(remove(any, backtick), " "), "\n"))
        c == add(add_next_state(b.sm, b.state, b.state), b.state, from_char("\n"))
        d == add_capture_loop(add_next_state(c.sm, lambda, c.state), c.state, any, name) IN
    add_backticks(d.sm, d.state, 3)

add_code_segment_single_line(sm, name, s, n_backticks) ==
    LET a == add_backticks(sm, s, n_backticks)
        b == add_capture_loop(a.sm, a.state, any, name) IN
    add_backticks(b.sm, b.state, n_backticks)

add_key_value(sm, name, s) ==
    LET a == add_chars(sm, s, name)
        b == add(a.sm, a.state, from_char("=")) IN
    add_capture_loop(b.sm, b.state, remove(remove(any, " "), "\n"), name)

\* the positions (0-based) where "={}" occurs in s
MatchIndices(s) ==
    { p \in 0..Len(s) : p + 3 <= Len(s) /\ Slice(s, p, p + 3) = <<"=", "{", "}">> }

\* Some(name) when s holds "={}" after a non-empty name
key_value_pair(s) ==
    IF MatchIndices(s) = {}
    THEN None
    ELSE LET name == Slice(s, 0, Min(MatchIndices(s))) IN
         IF Len(name) > 0 THEN Some(name) ELSE None

(***************************************************************************)
(* The templates registered, the messages served and the texts they hold.  *)
(***************************************************************************)
\* "cfg set a={} b={}"
TplCfg ==
    <<"c", "f", "g", " ", "s", "e", "t", " ", "a", "=", "{", "}", " ", "b", "=", "{", "}">>

\* "say {msg}"
TplSay ==
    <<"s", "a", "y", " ", "{", "m", "s", "g", "}">>

\* "run (backtick)code(backtick)"
TplRun ==
    <<"r", "u", "n", " ", backtick, "c", "o", "d", "e", backtick>>

\* "echo hi"
TplEchoHi ==
    <<"e", "c", "h", "o", " ", "h", "i">>

\* "echo {msg}"
TplEchoMsg ==
    <<"e", "c", "h", "o", " ", "{", "m", "s", "g", "}">>

\* "ping"
TplPing ==
    <<"p", "i", "n", "g">>

\* "ping loud"
TplPingLoud ==
    <<"p", "i", "n", "g", " ", "l", "o", "u", "d">>

\* "notify note..."
TplNotify ==
    <<"n", "o", "t", "i", "f", "y", " ", "n", "o", "t", "e", ".", ".", ".">>

\* "?ping"
TplQPing ==
    <<"?", "p", "i", "n", "g">>

\* "?say {msg}"
TplQSay ==
    <<"?", "s", "a", "y", " ", "{", "m", "s", "g", "}">>

Templates ==
    {TplCfg, TplSay, TplRun, TplEchoHi, TplEchoMsg, TplPing, TplPingLoud, TplNotify, TplQPing, TplQSay}

\* the templates also registered with a guard of their own
ProtectedTemplates == {TplQPing, TplQSay}

\* the commands given to help/help_protected
HelpCommands == {TplQPing}

\* "cfg set"
MsgCfg0 ==
    <<"c", "f", "g", " ", "s", "e", "t">>

\* "cfg set a=1"
MsgCfg1 ==
    <<"c", "f", "g", " ", "s", "e", "t", " ", "a", "=", "1">>

\* "cfg set a=1 b=2"
MsgCfg2 ==
    <<"c", "f", "g", " ", "s", "e", "t", " ", "a", "=", "1", " ", "b", "=", "2">>

\* "say hello"
MsgSayHello ==
    <<"s", "a", "y", " ", "h", "e", "l", "l", "o">>

\* "say x"
MsgSayX ==
    <<"s", "a", "y", " ", "x">>

\* "run (backtick)let x = 1(backtick)"
MsgRun ==
    <<"r", "u", "n", " ", backtick, "l", "e", "t", " ", "x", " ", "=", " ", "1", backtick>>

\* "echo hi"
MsgEchoHi ==
    <<"e", "c", "h", "o", " ", "h", "i">>

\* "ping"
MsgPing ==
    <<"p", "i", "n", "g">>

\* "ping loud"
MsgPingLoud ==
    <<"p", "i", "n", "g", " ", "l", "o", "u", "d">>

\* "pin"
MsgPin ==
    <<"p", "i", "n">>

\* "pingx"
MsgPingx ==
    <<"p", "i", "n", "g", "x">>

\* "ping "
MsgPingSp ==
    <<"p", "i", "n", "g", " ">>

\* "notify hello world\nmore"
MsgNotify ==
    <<"n", "o", "t", "i", "f", "y", " ", "h", "e", "l", "l", "o", " ", "w", "o", "r", "l", "d", "\n", "m", "o", "r", "e">>

\* "notify x"
MsgNotifyX ==
    <<"n", "o", "t", "i", "f", "y", " ", "x">>

\* "?ping"
MsgQPing ==
    <<"?", "p", "i", "n", "g">>

\* "?pin"
MsgQPin ==
    <<"?", "p", "i", "n">>

\* "?pingx"
MsgQPingx ==
    <<"?", "p", "i", "n", "g", "x">>

\* "?ping "
MsgQPingSp ==
    <<"?", "p", "i", "n", "g", " ">>

\* "?say hello"
MsgQSayHello ==
    <<"?", "s", "a", "y", " ", "h", "e", "l", "l", "o">>

\* "?help ping"
MsgQHelpPing ==
    <<"?", "h", "e", "l", "p", " ", "p", "i", "n", "g">>

Messages ==
    {MsgCfg0, MsgCfg1, MsgCfg2, MsgSayHello, MsgSayX,
     MsgRun, MsgEchoHi, MsgPing, MsgPingLoud, MsgPin,
     MsgPingx, MsgPingSp, MsgNotify, MsgNotifyX, MsgQPing,
     MsgQPin, MsgQPingx, MsgQPingSp, MsgQSayHello, MsgQHelpPing}

\* the messages handed to execute: the marked ones, and one unmarked
DispatchedMessages ==
    {MsgQPing, MsgQPin, MsgQPingx, MsgQPingSp, MsgQSayHello, MsgQHelpPing, MsgPing}

\* "hello"
TxtHello ==
    <<"h", "e", "l", "l", "o">>

\* "x"
TxtX ==
    <<"x">>

\* "let x = 1"
TxtLet ==
    <<"l", "e", "t", " ", "x", " ", "=", " ", "1">>

\* "hello world\nmore"
TxtNote ==
    <<"h", "e", "l", "l", "o", " ", "w", "o", "r", "l", "d", "\n", "m", "o", "r", "e">>

\* "1"
Txt1 ==
    <<"1">>

\* "2"
Txt2 ==
    <<"2">>

\* "a"
NameA ==
    <<"a">>

\* "b"
NameB ==
    <<"b">>

\* "msg"
NameMsg ==
    <<"m", "s", "g">>

\* "code"
NameCode ==
    <<"c", "o", "d", "e">>

\* "note"
NameNote ==
    <<"n", "o", "t", "e">>

\* "pong"
DescPing ==
    <<"p", "o", "n", "g">>

(***************************************************************************)
(* Commands: registration.                                                 *)
(***************************************************************************)
PREFIX == <<"?">>

\* the guard of add and help, |_| Ok(true), and a guard given by the caller
AlwaysGuard == "always"
CallerGuard == "caller"

\* Command { guard, ptr }: every registration boxes a fresh handler, named
\* here by the position of the registration
Command(guard, id) == [guard |-> guard, ptr |-> id]

\* command.split(' ').filter(|segment| segment.len() > 0)
RECURSIVE SplitFrom(_, _, _)
SplitFrom(s, i, cur) ==
    IF i > Len(s)
    THEN IF cur = <<>> THEN <<>> ELSE <<cur>>
    ELSE IF s[i] = " "
         THEN (IF cur = <<>> THEN <<>> ELSE <<cur>>) \o SplitFrom(s, i + 1, <<>>)
         ELSE LET grown == Append(cur, s[i]) IN
              IF Len(grown) > 0 THEN SplitFrom(s, i + 1, grown) ELSE <<>>

\* mutant of Segments: the filter on empty segments is missing
RECURSIVE SplitKeepEmpty(_, _, _)
SplitKeepEmpty(s, i, cur) ==
    IF i > Len(s)
    THEN <<cur>>
    ELSE IF s[i] = " "
         THEN <<cur>> \o SplitKeepEmpty(s, i + 1, <<>>)
         ELSE LET grown == Append(cur, s[i]) IN
              IF Len(grown) > 0 THEN SplitKeepEmpty(s, i + 1, grown) ELSE <<>>

SegmentsKeepEmpty(command) == SplitKeepEmpty(command, 1, <<>>)

Segments(command) == SplitFrom(command, 1, <<>>)

Fence1 == <<backtick>>
Fence3 == <<backtick, backtick, backtick>>
Fence3Newline == <<backtick, backtick, backtick, "\n">>
Dots == <<".", ".", ".">>

\* the name slice of a fenced or braced segment is taken with begin > end,
\* which panics
SlicePanics(segment) ==
    IF starts_with(segment, Fence3Newline) /\ ends_with(segment, Fence3)
    THEN Len(segment) < 7
    ELSE IF starts_with(segment, Fence3) /\ ends_with(segment, Fence3)
    THEN Len(segment) < 6
    ELSE IF starts_with(segment, Fence1) /\ ends_with(segment, Fence1)
    THEN Len(segment) < 2
    ELSE IF starts_with(segment, <<"{">>) /\ ends_with(segment, <<"}">>)
    THEN Len(segment) < 2
    ELSE FALSE

\* the else branch of the closure of add_protected: a segment that is no
\* key/value pair, compiled from state s
add_plain_segment(sm, segment, s) ==
    IF starts_with(segment, Fence3Newline) /\ ends_with(segment, Fence3)
    THEN add_code_segment_multi_line(sm, Slice(segment, 4, Len(segment) - 3), s)
    ELSE IF starts_with(segment, Fence3) /\ ends_with(segment, Fence3)
    THEN add_code_segment_single_line(sm, Slice(segment, 3, Len(segment) - 3), s, 3)
    ELSE IF starts_with(segment, Fence1) /\ ends_with(segment, Fence1)
    THEN add_code_segment_single_line(sm, Slice(segment, 1, Len(segment) - 1), s, 1)
    ELSE IF starts_with(segment, <<"{">>) /\ ends_with(segment, <<"}">>)
    THEN add_dynamic_segment(sm, Slice(segment, 1, Len(segment) - 1), s)
    ELSE IF ends_with(segment, Dots)
    THEN add_remaining_segment(sm, Slice(segment, 0, Len(segment) - 3), s)
    ELSE add_chars(sm, s, segment)

\* mutant of compile_segment: a later key/value segment is chained after the
\* one before it, with no hub and no way back
compile_segment_chained(acc, i, segment) ==
    LET kv == key_value_pair(segment)
        sp == add_space(acc.sm, acc.state, i) IN
    IF kv # None
    THEN LET r == add_key_value(sp.sm, kv[1], sp.state) IN
         [sm |-> r.sm,
          state |-> r.state,
          lambda |-> Some(sp.state),
          finals |-> IF acc.lambda # None
                     THEN Append(acc.finals, r.state)
                     ELSE Append(Append(acc.finals, acc.state), r.state)]
    ELSE LET r == add_plain_segment(sp.sm, segment, sp.state) IN
         [sm |-> r.sm, state |-> r.state, lambda |-> None, finals |-> <<>>]

\* one turn of the closure of add_protected on segment number i (from 0);
\* acc holds the automaton, state, opt_lambda_state and opt_final_states
compile_segment(acc, i, segment) ==
    LET kv == key_value_pair(segment) IN
    IF kv # None
    THEN IF acc.lambda # None
         THEN LET r == add_key_value(acc.sm, kv[1], acc.lambda[1]) IN
              [sm |-> add_next_state(r.sm, r.state, acc.lambda[1]),
               state |-> r.state,
               lambda |-> acc.lambda,
               finals |-> Append(acc.finals, r.state)]
         ELSE LET sp == add_space(acc.sm, acc.state, i)
                  r == add_key_value(sp.sm, kv[1], sp.state) IN
              [sm |-> add_next_state(r.sm, r.state, sp.state),
               state |-> r.state,
               lambda |-> Some(sp.state),
               finals |-> Append(Append(acc.finals, acc.state), r.state)]
    ELSE LET sp == add_space(acc.sm, acc.state, i)
             r == add_plain_segment(sp.sm, segment, sp.state) IN
         [sm |-> r.sm, state |-> r.state, lambda |-> None, finals |-> <<>>]

RECURSIVE compile_from(_, _, _)
compile_from(acc, segments, i) ==
    IF i >= Len(segments)
    THEN acc
    ELSE LET turned == compile_segment(acc, i, segments[i + 1]) IN
         IF turned.state >= 0 THEN compile_from(turned, segments, i + 1) ELSE turned

\* mutant of mark_all: the states are marked final, set_handler is forgotten
RECURSIVE mark_all_no_handler(_, _, _)
mark_all_no_handler(sm, finals, binding) ==
    IF finals = <<>>
    THEN sm
    ELSE LET marked == set_final_state(sm, Head(finals)) IN
         IF Len(marked) > 0
         THEN mark_all_no_handler(marked, Tail(finals), binding)
         ELSE marked

RECURSIVE mark_all(_, _, _)
mark_all(sm, finals, binding) ==
    IF finals = <<>>
    THEN sm
    ELSE LET marked == set_handler(set_final_state(sm, Head(finals)), Head(finals),
                                   binding) IN
         IF Len(marked) > 0 THEN mark_all(marked, Tail(finals), binding) ELSE marked

\* mutant of mark_final: an ordinary template marks the state before its last
mark_final_off_by_one(acc, binding) ==
    IF acc.lambda # None
    THEN mark_all(acc.sm, acc.finals, binding)
    ELSE mark_all(acc.sm, <<IF acc.state > 0 THEN acc.state - 1 ELSE 0>>, binding)

\* lines 124-132: the states marked final and bound to the handler
mark_final(acc, binding) ==
    IF acc.lambda # None
    THEN mark_all(acc.sm, acc.finals, binding)
    ELSE mark_all(acc.sm, <<acc.state>>, binding)

compile(sm, command) ==
    compile_from([sm |-> sm, state |-> 0, lambda |-> None, finals |-> <<>>],
                 Segments(command), 0)

\* the automaton after add_protected(command, handler, guard)
add_protected(sm, command, binding) ==
    mark_final(compile(sm, command), binding)

\* a registration whose slices panic never returns
Panics(command) ==
    \E k \in 1..Len(Segments(command)) :
        key_value_pair(Segments(command)[k]) = None /\ SlicePanics(Segments(command)[k])

\* mutant of menu_insert: a listing that was taken is created again
menu_insert_recreates(m, cmd, desc, guard) ==
    Some({ e \in (IF m = None THEN {} ELSE m[1]) : e[1] # cmd } \cup { <<cmd, desc, guard>> })

\* menu.insert(cmd, (desc, guard)) when the listing is still there
menu_insert(m, cmd, desc, guard) ==
    IF m = None
    THEN None
    ELSE Some({ e \in m[1] : e[1] # cmd } \cup { <<cmd, desc, guard>> })

\* the automaton after help_protected(cmd, desc, handler, guard)
help_protected(sm, cmd, binding) ==
    LET r == add_help_menu(sm, Slice(cmd, 1, Len(cmd)), 0) IN
    set_handler(set_final_state(r.sm, r.state), r.state, binding)

(***************************************************************************)
(* Bounds.                                                                 *)
(***************************************************************************)
\* registrations (add, add_protected, help, help_protected) in one run
MaxRegs == 2

\* calls of menu() in one run
MaxMenuCalls == 2

(***************************************************************************)
(* execute takes &self, so several threads may be inside it at once; each  *)
(* call has its own message, match, params and outcome.                    *)
(***************************************************************************)
\* the threads that call execute
Workers == {1, 2}

\* a thread that has not called execute yet
NewDispatch ==
    [pc |-> "new", message |-> <<>>, own |-> FALSE, i |-> 0, state |-> 0,
     params |-> {}, matched |-> None, guardResult |-> None, calls |-> <<>>,
     errors |-> 0]

(***************************************************************************)
(* Commands::new().                                                        *)
(***************************************************************************)
Init ==
    /\ state_machine = StateMachineNew
    /\ menu = Some({})
    /\ registered = <<>>
    /\ extracted = <<>>
    /\ call = "none"
    /\ message = <<>>
    /\ own = FALSE
    /\ matched = None
    /\ pc = "idle"
    /\ guardResult = None
    /\ handlerCalls = <<>>
    /\ unauthCalls = 0
    /\ errors = 0
    /\ dispatches = [w \in Workers |-> NewDispatch]

dispatchVars == <<call, message, own, matched, pc, guardResult, handlerCalls,
                  unauthCalls, errors>>

\* registration is start-up work: it needs the router exclusively and ends
\* before the first message is served
CanRegister ==
    /\ pc = "idle"
    /\ call = "none"
    /\ Len(registered) < MaxRegs

NextId == Len(registered) + 1

Register(kind, command, guard) ==
    /\ CanRegister
    /\ ~Panics(command)
    /\ state_machine' = add_protected(state_machine, command, Command(guard, NextId))
    /\ registered' = Append(registered, [kind |-> kind, command |-> command, guard |-> guard])
    /\ UNCHANGED <<menu, extracted, dispatchVars, dispatches>>

\* add(command, handler)
Add ==
    \E command \in Templates : Register("add", command, AlwaysGuard)

\* add_protected(command, handler, guard)
AddProtected ==
    \E command \in ProtectedTemplates : Register("add", command, CallerGuard)

RegisterHelp(cmd, desc, guard) ==
    /\ CanRegister
    /\ Len(cmd) >= 1
    /\ menu' = menu_insert(menu, cmd, desc, guard)
    /\ state_machine' = help_protected(state_machine, cmd, Command(guard, NextId))
    /\ registered' = Append(registered, [kind |-> "help", command |-> cmd, guard |-> guard])
    /\ UNCHANGED <<extracted, dispatchVars, dispatches>>

\* help(cmd, desc, handler)
Help ==
    \E cmd \in HelpCommands : RegisterHelp(cmd, DescPing, AlwaysGuard)

\* help_protected(cmd, desc, handler, guard)
HelpProtected ==
    \E cmd \in HelpCommands : RegisterHelp(cmd, DescPing, CallerGuard)

\* mutant of Menu: the listing is cloned, not taken
MenuClones ==
    /\ pc = "idle"
    /\ Len(extracted) < MaxMenuCalls
    /\ extracted' = Append(extracted, menu)
    /\ menu' = menu
    /\ UNCHANGED <<state_machine, registered, dispatchVars, dispatches>>

\* menu(): self.menu.take()
Menu ==
    /\ pc = "idle"
    /\ Len(extracted) < MaxMenuCalls
    /\ extracted' = Append(extracted, menu)
    /\ menu' = None
    /\ UNCHANGED <<state_machine, registered, dispatchVars, dispatches>>

(***************************************************************************)
(* Serving a message.                                                      *)
(***************************************************************************)
\* a direct call of state_machine.process(input) on the finished automaton
Probe(input) ==
    /\ pc = "idle"
    /\ call = "none"
    /\ call' = "process"
    /\ message' = input
    /\ own' = FALSE
    /\ matched' = process(state_machine, input)
    /\ guardResult' = None
    /\ handlerCalls' = <<>>
    /\ unauthCalls' = 0
    /\ errors' = 0
    /\ UNCHANGED <<dispatches, state_machine, menu, registered, extracted, pc>>

Process ==
    \E input \in Messages : Probe(input)

\* mutant of Gate: the author of the message is not looked at
GateIgnoresOwn(content, isOwn) == starts_with(content, PREFIX)

\* the condition of line 177
Gate(content, isOwn) == ~isOwn /\ starts_with(content, PREFIX)

\* execute, lines 175-186: the gate and the match
Execute ==
    \E content \in DispatchedMessages, isOwn \in BOOLEAN :
        /\ pc = "idle"
        /\ call' = "execute"
        /\ message' = content
        /\ own' = isOwn
        /\ matched' = IF Gate(content, isOwn) THEN process(state_machine, content) ELSE None
        /\ pc' = IF matched' # None THEN "authorize" ELSE "idle"
        /\ guardResult' = None
        /\ handlerCalls' = <<>>
        /\ unauthCalls' = 0
        /\ errors' = 0
        /\ UNCHANGED <<dispatches, state_machine, menu, registered, extracted>>

\* what a guard may return
GuardOutcomes(guard) ==
    IF guard = AlwaysGuard THEN {"OkTrue"} ELSE {"OkTrue", "OkFalse", "Err"}

\* mutant of AfterGuard: the arms of Ok(true) and Ok(false) are one
AfterGuardDeniedCalls(r) ==
    IF r = "OkTrue" \/ r = "OkFalse" THEN "call" ELSE "idle"

\* mutant of AfterGuard: an error of the guard is answered as a denial
AfterGuardErrorReplies(r) ==
    IF r = "OkTrue" THEN "call" ELSE "reply"

\* where execute goes on the value of authorize, lines 187-203
AfterGuard(r) ==
    IF r = "OkTrue" THEN "call" ELSE IF r = "OkFalse" THEN "reply" ELSE "idle"

\* line 187: matched.handler.authorize(&args)
Authorize ==
    /\ pc = "authorize"
    /\ \E r \in GuardOutcomes(matched[1].handler.guard) :
        /\ guardResult' = Some([result |-> r, params |-> matched[1].params])
        /\ pc' = AfterGuard(r)
        /\ errors' = IF r = "Err" THEN errors + 1 ELSE errors
        /\ UNCHANGED <<dispatches, state_machine, menu, registered, extracted, call, message,
                       own, matched, handlerCalls, unauthCalls>>

\* lines 188-193: matched.handler.call(args)
CallHandler ==
    /\ pc = "call"
    /\ \E r \in {"Ok", "Err"} :
        /\ handlerCalls' = Append(handlerCalls, [ptr |-> matched[1].handler.ptr,
                                                  params |-> matched[1].params])
        /\ errors' = IF r = "Err" THEN errors + 1 ELSE errors
        /\ pc' = "idle"
        /\ UNCHANGED <<dispatches, state_machine, menu, registered, extracted, call, message,
                       own, matched, guardResult, unauthCalls>>

\* mutant of ReplyUnauthorized: after the reply the handler is called as well
ReplyThenCall ==
    /\ pc = "reply"
    /\ \E r \in {"Ok", "Err"} :
        /\ unauthCalls' = unauthCalls + 1
        /\ errors' = IF r = "Err" THEN errors + 1 ELSE errors
        /\ pc' = "call"
        /\ UNCHANGED <<dispatches, state_machine, menu, registered, extracted, call, message,
                       own, matched, guardResult, handlerCalls>>

\* lines 194-201: api::send_reply(&args, "You do not have permission ...")
ReplyUnauthorized ==
    /\ pc = "reply"
    /\ \E r \in {"Ok", "Err"} :
        /\ unauthCalls' = unauthCalls + 1
        /\ errors' = IF r = "Err" THEN errors + 1 ELSE errors
        /\ pc' = "idle"
        /\ UNCHANGED <<dispatches, state_machine, menu, registered, extracted, call, message,
                       own, matched, guardResult, handlerCalls>>

Next ==
    \/ Add
    \/ AddProtected
    \/ Help
    \/ HelpProtected
    \/ Menu
    \/ Process
    \/ Execute
    \/ Authorize
    \/ CallHandler
    \/ ReplyUnauthorized

Spec == Init /\ [][Next]_vars

\* start-up alone: the registrations and menu(), no message served
NextRegistration ==
    \/ Add
    \/ AddProtected
    \/ Help
    \/ HelpProtected
    \/ Menu

SpecRegistration == Init /\ [][NextRegistration]_vars

(***************************************************************************)
(* A second specification: further templates are registered with add and   *)
(* the finished automaton is probed with further inputs.                   *)
(***************************************************************************)
\* "cfg set"
TplCfgSet ==
    <<"c", "f", "g", " ", "s", "e", "t">>

\* "cfg set a={}"
TplCfgA ==
    <<"c", "f", "g", " ", "s", "e", "t", " ", "a", "=", "{", "}">>

\* "x {a}"
TplXA ==
    <<"x", " ", "{", "a", "}">>

\* "x {b}"
TplXB ==
    <<"x", " ", "{", "b", "}">>

\* "ping  loud"
TplPingLoud2 ==
    <<"p", "i", "n", "g", " ", " ", "l", "o", "u", "d">>

\* "run (backtick)code"
TplRunOpen ==
    <<"r", "u", "n", " ", backtick, "c", "o", "d", "e">>

\* "={}"
TplEqBraces ==
    <<"=", "{", "}">>

TemplatesB ==
    {TplCfg, TplCfgSet, TplCfgA, TplXA, TplXB, TplSay, TplPingLoud, TplPingLoud2,
     TplRunOpen, TplEqBraces}

\* "cfg set b=2 a=1"
MsgCfgBA ==
    <<"c", "f", "g", " ", "s", "e", "t", " ", "b", "=", "2", " ", "a", "=", "1">>

\* "cfg set b=2"
MsgCfgB ==
    <<"c", "f", "g", " ", "s", "e", "t", " ", "b", "=", "2">>

\* "cfg set a=1 a=2"
MsgCfgAA ==
    <<"c", "f", "g", " ", "s", "e", "t", " ", "a", "=", "1", " ", "a", "=", "2">>

\* "cfg set c=3"
MsgCfgC ==
    <<"c", "f", "g", " ", "s", "e", "t", " ", "c", "=", "3">>

\* "say a\nb"
MsgSayNl ==
    <<"s", "a", "y", " ", "a", "\n", "b">>

\* "ping   loud"
MsgPing3Loud ==
    <<"p", "i", "n", "g", " ", " ", " ", "l", "o", "u", "d">>

\* "ping\nloud"
MsgPingNlLoud ==
    <<"p", "i", "n", "g", "\n", "l", "o", "u", "d">>

\* "pingloud"
MsgPingloud ==
    <<"p", "i", "n", "g", "l", "o", "u", "d">>

\* " ping loud"
MsgSpPingLoud ==
    <<" ", "p", "i", "n", "g", " ", "l", "o", "u", "d">>

\* "ping\tloud"
MsgPingTabLoud ==
    <<"p", "i", "n", "g", "\t", "l", "o", "u", "d">>

\* "run (backtick)code"
MsgRunOpen ==
    <<"r", "u", "n", " ", backtick, "c", "o", "d", "e">>

\* "={}"
MsgEqBraces ==
    <<"=", "{", "}">>

\* "x 1"
MsgX1 ==
    <<"x", " ", "1">>

MessagesB ==
    {MsgCfg0, MsgCfg1, MsgCfg2, MsgCfgBA, MsgCfgB, MsgCfgAA, MsgCfgC,
     MsgSayHello, MsgSayNl, MsgPingLoud, MsgPing3Loud, MsgPingNlLoud, MsgPingloud,
     MsgSpPingLoud, MsgPingTabLoud, MsgRunOpen, MsgEqBraces, MsgX1}

\* add(command, handler) of one of the further templates
AddB ==
    \E command \in TemplatesB : Register("add", command, AlwaysGuard)

ProcessB ==
    \E input \in MessagesB : Probe(input)

NextB ==
    \/ AddB
    \/ ProcessB

SpecB == Init /\ [][NextB]_vars

(***************************************************************************)
(* A third specification: after start-up, several threads serve messages   *)
(* through execute at once.  The scan of process is taken one character at *)
(* a time, so that the steps of the calls interleave.                      *)
(***************************************************************************)
\* "?say hi"
MsgQSayHi ==
    <<"?", "s", "a", "y", " ", "h", "i">>

ConcurrentTemplates == {TplQPing, TplQSay}

ConcurrentMessages == {MsgQSayHi, MsgQPing, MsgPing}

\* add(command, handler) or add_protected(command, handler, guard) at
\* start-up, before any thread calls execute
RegisterAtStartup ==
    \E command \in ConcurrentTemplates, guard \in {AlwaysGuard, CallerGuard} :
        /\ \A w \in Workers : dispatches[w].pc = "new"
        /\ Register("add", command, guard)

\* mutant of Begun: the capture buffers are one field of the router, cleared
\* whenever a call of execute begins
BegunSharedBuffer(w, content, isOwn) ==
    [v \in Workers |->
        IF v = w
        THEN [NewDispatch EXCEPT !.pc = IF Gate(content, isOwn) THEN "scan" ELSE "done",
                                 !.message = content, !.own = isOwn, !.i = 1]
        ELSE [dispatches[v] EXCEPT !.params = {}]]

\* lines 175-178: thread w enters execute with its message; the gate decides
\* whether process is called, from state 0 with fresh params
Begun(w, content, isOwn) ==
    [dispatches EXCEPT ![w] =
        [NewDispatch EXCEPT !.pc = IF Gate(content, isOwn) THEN "scan" ELSE "done",
                            !.message = content, !.own = isOwn, !.i = 1]]

Begin(w) ==
    \E content \in ConcurrentMessages, isOwn \in BOOLEAN :
        /\ dispatches[w].pc \in {"new", "done"}
        /\ dispatches' = Begun(w, content, isOwn)
        /\ UNCHANGED <<state_machine, menu, registered, extracted, dispatchVars>>

\* what process returns where the scan of d ends on state s
Ended(d, s) ==
    IF StateAt(state_machine, s).is_final_state /\ StateAt(state_machine, s).handler # None
    THEN Some([handler |-> StateAt(state_machine, s).handler[1], params |-> d.params,
               state |-> s])
    ELSE None

\* one turn of the scan of process in thread w: a character is consumed, or
\* the scan ends with Some(match) or None
Scanned(d) ==
    IF d.i > Len(d.message)
    THEN [d EXCEPT !.matched = Ended(d, d.state),
                   !.pc = IF Ended(d, d.state) # None THEN "authorize" ELSE "done"]
    ELSE IF AcceptingEdges(state_machine, d.state, d.message[d.i]) = {}
         THEN [d EXCEPT !.pc = "done"]
         ELSE LET t == StateAt(state_machine, d.state).next_states[
                           ChosenEdge(state_machine, d.state, d.message[d.i])] IN
              [d EXCEPT !.i = d.i + 1,
                        !.state = t,
                        !.params = Capture(state_machine, d.params, d.state, t,
                                           d.message[d.i])]

ScanStep(w) ==
    /\ dispatches[w].pc = "scan"
    /\ dispatches' = [dispatches EXCEPT ![w] = Scanned(dispatches[w])]
    /\ UNCHANGED <<state_machine, menu, registered, extracted, dispatchVars>>

\* line 187 in thread w
AuthorizeIn(w) ==
    /\ dispatches[w].pc = "authorize"
    /\ \E r \in GuardOutcomes(dispatches[w].matched[1].handler.guard) :
        /\ dispatches' = [dispatches EXCEPT
                             ![w].guardResult = Some([result |-> r,
                                                      params |-> dispatches[w].matched[1].params]),
                             ![w].pc = IF AfterGuard(r) = "idle" THEN "done" ELSE AfterGuard(r),
                             ![w].errors = IF r = "Err" THEN @ + 1 ELSE @]
        /\ UNCHANGED <<state_machine, menu, registered, extracted, dispatchVars>>

\* lines 188-193 in thread w
CallHandlerIn(w) ==
    /\ dispatches[w].pc = "call"
    /\ \E r \in {"Ok", "Err"} :
        /\ dispatches' = [dispatches EXCEPT
                             ![w].calls = Append(@, [kind |-> "handler",
                                                     ptr |-> dispatches[w].matched[1].handler.ptr,
                                                     params |-> dispatches[w].matched[1].params]),
                             ![w].pc = "done",
                             ![w].errors = IF r = "Err" THEN @ + 1 ELSE @]
        /\ UNCHANGED <<state_machine, menu, registered, extracted, dispatchVars>>

\* lines 194-201 in thread w
ReplyUnauthorizedIn(w) ==
    /\ dispatches[w].pc = "reply"
    /\ \E r \in {"Ok", "Err"} :
        /\ dispatches' = [dispatches EXCEPT
                             ![w].calls = Append(@, [kind |-> "unauthorized",
                                                     ptr |-> 0,
                                                     params |-> {}]),
                             ![w].pc = "done",
                             ![w].errors = IF r = "Err" THEN @ + 1 ELSE @]
        /\ UNCHANGED <<state_machine, menu, registered, extracted, dispatchVars>>

NextConcurrent ==
    \/ RegisterAtStartup
    \/ \E w \in Workers : Begin(w)
    \/ \E w \in Workers : ScanStep(w)
    \/ \E w \in Workers : AuthorizeIn(w)
    \/ \E w \in Workers : CallHandlerIn(w)
    \/ \E w \in Workers : ReplyUnauthorizedIn(w)

SpecConcurrent == Init /\ [][NextConcurrent]_vars

(***************************************************************************)
(* Vocabulary of the properties.                                           *)
(***************************************************************************)
Last(seq) == seq[Len(seq)]

\* the positions of the add/add_protected registrations of template t
AddedAt(t) ==
    { k \in 1..Len(registered) :
        registered[k].kind = "add" /\ registered[k].command = t }

Max(S) == CHOOSE x \in S : \A y \in S : x >= y

\* t is the single template registered, once
OnlyTemplate(t) == Len(registered) = 1 /\ AddedAt(t) = {1}

\* every registration made is a registration of t, and there is one
NoTemplateBut(t) == registered # <<>> /\ AddedAt(t) = 1..Len(registered)

Probed(input) == call = "process" /\ message = input

Dispatched(input) == call = "execute" /\ message = input /\ ~own

\* the dispatch of the latest message has returned
Returned == call = "execute" /\ pc = "idle"

PathOf(input) == Path(state_machine, input, 1, 0)

\* the scan of the input consumed it all and stopped on a final state
EndsFinal(input) ==
    /\ Len(PathOf(input)) = Len(input) + 1
    /\ StateAt(state_machine, Last(PathOf(input))).is_final_state

Has(params, name, value) == name \in Names(params) /\ Lookup(params, name) = value

(***************************************************************************)
(* C1.  With "cfg set a={} b={}" the single template, the inputs           *)
(* "cfg set", "cfg set a=1" and "cfg set a=1 b=2" are each matched: the    *)
(* scan consumes the input and ends on a final state bound to the          *)
(* template's handler, and the params are {}, {a: "1"} and                 *)
(* {a: "1", b: "2"}.                                                       *)
(***************************************************************************)
C1_Expected(input) ==
    IF input = MsgCfg0 THEN {}
    ELSE IF input = MsgCfg1 THEN {<<NameA, Txt1>>}
    ELSE {<<NameA, Txt1>>, <<NameB, Txt2>>}

C1_KeyValuePrefixes ==
    \A input \in {MsgCfg0, MsgCfg1, MsgCfg2} :
        (OnlyTemplate(TplCfg) /\ Probed(input)) =>
            /\ matched # None
            /\ EndsFinal(input)
            /\ matched[1].handler.ptr = 1
            /\ matched[1].params = C1_Expected(input)

(***************************************************************************)
(* C2.  With "say {msg}" the single template, an input "say " followed by  *)
(* a token free of space and newline is matched and params["msg"] is the   *)
(* whole token, its first character included.                              *)
(***************************************************************************)
C2_DynamicWholeToken ==
    \A input \in {MsgSayHello, MsgSayX} :
        (OnlyTemplate(TplSay) /\ Probed(input)) =>
            /\ matched # None
            /\ Has(matched[1].params, NameMsg, Slice(input, 4, Len(input)))

(***************************************************************************)
(* C3.  With the single-line code template "run" + fenced "code" the       *)
(* single template, the input "run" + fenced "let x = 1" is matched: the   *)
(* scan leaves the capture loop on the closing backtick, ends on the final *)
(* state after the fence, and params["code"] is "let x = 1".               *)
(***************************************************************************)
C3_InlineCodeCapture ==
    (OnlyTemplate(TplRun) /\ Probed(MsgRun)) =>
        /\ matched # None
        /\ EndsFinal(MsgRun)
        /\ Has(matched[1].params, NameCode, TxtLet)

(***************************************************************************)
(* C4.  As claimed: with "echo hi" and "echo {msg}" both registered, in    *)
(* whichever order, the input "echo hi" is matched to the binding of the   *)
(* literal template.                                                       *)
(***************************************************************************)
C4_LiteralWinsAnyOrder ==
    (AddedAt(TplEchoHi) # {} /\ AddedAt(TplEchoMsg) # {} /\ Probed(MsgEchoHi)) =>
        /\ matched # None
        /\ matched[1].handler.ptr \in AddedAt(TplEchoHi)

(***************************************************************************)
(* C4, amended.  When "echo hi" is registered before "echo {msg}", the     *)
(* input "echo hi" is matched to the binding of the literal template (the  *)
(* one its latest registration set) and not to the wildcard's.             *)
(***************************************************************************)
LiteralFirst ==
    /\ AddedAt(TplEchoHi) # {}
    /\ AddedAt(TplEchoMsg) # {}
    /\ Min(AddedAt(TplEchoHi)) < Min(AddedAt(TplEchoMsg))

C4_LiteralWinsWhenFirst ==
    (LiteralFirst /\ Probed(MsgEchoHi)) =>
        /\ matched # None
        /\ matched[1].handler.ptr = Max(AddedAt(TplEchoHi))
        /\ matched[1].handler.ptr \notin AddedAt(TplEchoMsg)

C4_Witness ==
    /\ LiteralFirst
    /\ Probed(MsgEchoHi)
    /\ matched # None
    /\ matched[1].handler.ptr = 1

(***************************************************************************)
(* C5.  With "ping" and "ping loud" both registered, in either order, the  *)
(* states on the path of "ping" are the first states on the path of        *)
(* "ping loud" (two registrations build ten states, none twice), "ping"    *)
(* is matched to the binding of "ping" and "ping loud" to the binding of   *)
(* "ping loud".                                                            *)
(***************************************************************************)
BothPings == AddedAt(TplPing) # {} /\ AddedAt(TplPingLoud) # {}

C5_PrefixSharing ==
    BothPings =>
        /\ Len(PathOf(MsgPing)) = 5
        /\ Len(PathOf(MsgPingLoud)) = 10
        /\ SubSeq(PathOf(MsgPingLoud), 1, 5) = PathOf(MsgPing)
        /\ Len(registered) = 2 => Len(state_machine) = 10
        /\ Probed(MsgPing) =>
              /\ matched # None
              /\ matched[1].handler.ptr = Max(AddedAt(TplPing))
        /\ Probed(MsgPingLoud) =>
              /\ matched # None
              /\ matched[1].handler.ptr = Max(AddedAt(TplPingLoud))

C5_Witness ==
    /\ BothPings
    /\ Min(AddedAt(TplPingLoud)) < Min(AddedAt(TplPing))
    /\ Probed(MsgPing)
    /\ matched # None
    /\ matched[1].handler.ptr = 2

(***************************************************************************)
(* C6.  In every dispatch the handler bound to the matched state is called *)
(* only after the guard of that binding was evaluated on the same params   *)
(* and returned Ok(true); when the guard returned Ok(false), the dispatch  *)
(* returns with the unauthorized reply sent exactly once and the handler   *)
(* never called.                                                           *)
(***************************************************************************)
HandlerCalledNow == handlerCalls' # handlerCalls /\ handlerCalls' # <<>>

C6_CallAfterOkTrue ==
    HandlerCalledNow =>
        /\ matched # None
        /\ guardResult # None
        /\ guardResult[1].result = "OkTrue"
        /\ guardResult[1].params = matched[1].params
        /\ Last(handlerCalls').params = guardResult[1].params
        /\ Last(handlerCalls').ptr = matched[1].handler.ptr
        /\ unauthCalls' = 0

C6_DeniedOutcome ==
    (Returned /\ guardResult # None /\ guardResult[1].result = "OkFalse") =>
        /\ unauthCalls = 1
        /\ handlerCalls = <<>>

C6_GuardGating == [][C6_CallAfterOkTrue]_vars /\ []C6_DeniedOutcome

C6_Witness ==
    /\ Returned
    /\ message = MsgQSayHello
    /\ guardResult # None
    /\ guardResult[1].result = "OkFalse"
    /\ unauthCalls = 1
    /\ handlerCalls = <<>>

(***************************************************************************)
(* C7.  As claimed: every dispatch ends with the handler called, with the  *)
(* unauthorized reply sent, or with neither, never with both; and it ends  *)
(* with neither only when the input did not match.                         *)
(***************************************************************************)
Invocations == Len(handlerCalls) + unauthCalls

C7_NeitherOnlyWithoutMatch ==
    Returned =>
        /\ Invocations <= 1
        /\ Invocations = 0 => matched = None

(***************************************************************************)
(* C7, amended.  Every dispatch ends with the handler called once, with    *)
(* the unauthorized reply sent once, or with neither, never with both; and *)
(* it ends with neither exactly when the input did not match or the guard  *)
(* returned an error.                                                      *)
(***************************************************************************)
GuardFailed == guardResult # None /\ guardResult[1].result = "Err"

C7_ExactlyOneOutcome ==
    Returned =>
        /\ Invocations <= 1
        /\ Invocations = 0 <=> (matched = None \/ GuardFailed)

C7_Witness ==
    /\ Returned
    /\ matched # None
    /\ GuardFailed
    /\ Invocations = 0

(***************************************************************************)
(* C8.  A match is produced only when the scan has consumed the whole      *)
(* input and stands on a final state.  With "ping" the only template,      *)
(* "pin", "pingx" and "ping " yield no match; with "?ping" the only        *)
(* template, dispatching "?pin", "?pingx" or "?ping " yields no match;     *)
(* and a dispatch without a match returns at once, calling neither the     *)
(* handler nor the unauthorized reply.                                     *)
(***************************************************************************)
C8_MatchOnlyAtFinalEnd ==
    /\ (call # "none" /\ matched # None) =>
          /\ EndsFinal(message)
          /\ matched[1].state = Last(PathOf(message))
    /\ \A input \in {MsgPin, MsgPingx, MsgPingSp} :
          (NoTemplateBut(TplPing) /\ Probed(input)) => matched = None
    /\ \A input \in {MsgQPin, MsgQPingx, MsgQPingSp} :
          (NoTemplateBut(TplQPing) /\ Dispatched(input)) => matched = None
    /\ (call = "execute" /\ matched = None) =>
          /\ pc = "idle"
          /\ handlerCalls = <<>>
          /\ unauthCalls = 0
          /\ guardResult = None

C8_Witness ==
    /\ NoTemplateBut(TplQPing)
    /\ Dispatched(MsgQPin)
    /\ matched = None
    /\ Returned
    /\ Invocations = 0

ErrorReportedNow == errors' > errors

DispatchStep == dispatchVars' # dispatchVars

C10_ErrorStep ==
    /\ DispatchStep =>
          /\ state_machine' = state_machine
          /\ menu' = menu
          /\ registered' = registered
    /\ ErrorReportedNow =>
          /\ errors' = errors + 1
          /\ pc' = "idle"
          /\ pc = "authorize" =>
                /\ guardResult'[1].result = "Err"
                /\ handlerCalls' = <<>>
                /\ unauthCalls' = 0

C10_AfterError ==
    /\ (Returned /\ GuardFailed) => (errors = 1 /\ Invocations = 0)
    /\ (call = "execute" /\ errors > 0) => (pc = "idle" /\ errors = 1)

C10_ErrorsConfined == [][C10_ErrorStep]_vars /\ []C10_AfterError

C10_Witness ==
    /\ Returned
    /\ matched # None
    /\ errors = 1
    /\ Len(handlerCalls) = 1

(***************************************************************************)
(* C12.  After any sequence of help registrations, the first call of       *)
(* menu() returns every (command, description, guard) recorded so far and  *)
(* every later call returns nothing; menu() never changes the automaton,   *)
(* so "?help ping" keeps matching after the extraction.                    *)
(***************************************************************************)
\* the positions of the help/help_protected registrations of cmd
HelpAt(cmd) ==
    { k \in 1..Len(registered) :
        registered[k].kind = "help" /\ registered[k].command = cmd }

\* the listing the help registrations made so far add up to
Recorded ==
    { <<cmd, DescPing, registered[Max(HelpAt(cmd))].guard>> :
        cmd \in { c \in HelpCommands : HelpAt(c) # {} } }

MenuCalledNow == extracted' # extracted

C12_MenuStep ==
    MenuCalledNow =>
        /\ Len(extracted') = Len(extracted) + 1
        /\ Last(extracted') = IF extracted = <<>> THEN Some(Recorded) ELSE None
        /\ menu' = None
        /\ state_machine' = state_machine

C12_StillMatches ==
    (extracted # <<>> /\ HelpAt(TplQPing) # {} /\ Probed(MsgQHelpPing)) =>
        /\ matched # None
        /\ matched[1].handler.ptr = Max(HelpAt(TplQPing))

C12_HelpExtractedOnce == [][C12_MenuStep]_vars /\ []C12_StillMatches

C12_Witness ==
    /\ Len(extracted) = 2
    /\ extracted[1] = Some({<<TplQPing, DescPing, CallerGuard>>})
    /\ extracted[2] = None
    /\ Probed(MsgQHelpPing)
    /\ matched # None

(***************************************************************************)
(* C13.  execute attempts a match only for a message that begins with the  *)
(* marker "?" and is not the router's own: for any other message no guard, *)
(* handler or unauthorized reply is called, even when the automaton would  *)
(* accept the text; for a message that passes, the match is the one        *)
(* process gives.                                                          *)
(***************************************************************************)
C13_GateBeforeMatch ==
    call = "execute" =>
        /\ (own \/ ~starts_with(message, PREFIX)) =>
              /\ matched = None
              /\ pc = "idle"
              /\ guardResult = None
              /\ Invocations = 0
        /\ (~own /\ starts_with(message, PREFIX)) =>
              matched = process(state_machine, message)

C13_Witness ==
    /\ call = "execute"
    /\ own
    /\ message = MsgQPing
    /\ process(state_machine, message) # None
    /\ matched = None
    /\ Invocations = 0

(***************************************************************************)
(* C17.  After any sequence of registrations the automaton is well formed: *)
(* the state ids are 0..n-1 with the start state 0, every edge (self-loops *)
(* and back-edges to a hub included) targets an existing state, and a      *)
(* state is final exactly when it carries a binding, which is the binding  *)
(* of the most recent registration that marked that state.                 *)
(***************************************************************************)
Range(seq) == { seq[k] : k \in 1..Len(seq) }

StateIds == 0..(Len(state_machine) - 1)

\* the automaton after the first k registrations
Replay[k \in 0..MaxRegs + 1] ==
    IF k = 0 \/ k > Len(registered)
    THEN StateMachineNew
    ELSE LET before == Replay[k - 1] IN
         IF Len(before) = 0
         THEN before
         ELSE IF registered[k].kind = "add"
              THEN add_protected(before, registered[k].command,
                                 Command(registered[k].guard, k))
              ELSE help_protected(before, registered[k].command,
                                  Command(registered[k].guard, k))

\* the states registration k marked final
MarkedBy(k) ==
    LET before == Replay[k - 1] IN
    IF Len(before) = 0
    THEN {}
    ELSE IF registered[k].kind = "add"
         THEN LET acc == compile(before, registered[k].command) IN
              IF acc.lambda # None THEN Range(acc.finals) ELSE {acc.state}
         ELSE {add_help_menu(before,
                             Slice(registered[k].command, 1, Len(registered[k].command)),
                             0).state}

MarkersOf(s) == { k \in 1..Len(registered) : s \in MarkedBy(k) }

\* the most recent registration that marked s
LatestMarker(s) ==
    CHOOSE k \in 1..Len(registered) :
        /\ s \in MarkedBy(k)
        /\ \A j \in (k + 1)..Len(registered) : s \notin MarkedBy(j)

C17_WellFormed ==
    /\ Len(state_machine) >= 1
    /\ \A s \in StateIds :
          /\ Range(StateAt(state_machine, s).next_states) \subseteq StateIds
          /\ StateAt(state_machine, s).is_final_state <=> MarkersOf(s) # {}
          /\ StateAt(state_machine, s).is_final_state =>
                /\ StateAt(state_machine, s).handler # None
                /\ StateAt(state_machine, s).handler[1] =
                      Command(registered[LatestMarker(s)].guard, LatestMarker(s))
          /\ ~StateAt(state_machine, s).is_final_state =>
                StateAt(state_machine, s).handler = None

\* a hub with back-edges, and final states marked twice
C17_Witness ==
    /\ AddedAt(TplCfg) = {1}
    /\ AddedAt(TplQPing) = {2}
    /\ HelpAt(TplQPing) = {}
    /\ \E s \in StateIds : \E t \in Range(StateAt(state_machine, s).next_states) : t < s
    /\ \E s \in StateIds : StateAt(state_machine, s).is_final_state

(***************************************************************************)
(* C20.  help/help_protected always compiles the accepting path "?help",   *)
(* one or more of space and newline, then the command without its first    *)
(* character, bound to the given handler and guard; the entry is recorded  *)
(* in the listing only while the listing has not been taken: after menu()  *)
(* the listing stays absent, every later menu() returns None, and          *)
(* "?help ping" is still matched and dispatched to the help handler.       *)
(***************************************************************************)
HelpWord == <<"?", "h", "e", "l", "p">>

Whitespace == { <<" ">>, <<"\n">>, <<" ", "\n", " ">> }

HelpRegisteredNow ==
    /\ Len(registered') = Len(registered) + 1
    /\ Last(registered').kind = "help"

C20_HelpStep ==
    HelpRegisteredNow =>
        LET cmd == Last(registered').command
            binding == Command(Last(registered').guard, Len(registered')) IN
        /\ \A ws \in Whitespace :
              LET m == process(state_machine', HelpWord \o ws \o Slice(cmd, 1, Len(cmd))) IN
              m # None /\ m[1].handler = binding
        /\ extracted # <<>> => menu' = None
        /\ extracted = <<>> =>
              /\ menu' # None
              /\ <<cmd, DescPing, Last(registered').guard>> \in menu'[1]

C20_ListingStaysAbsent ==
    /\ extracted # <<>> => menu = None
    /\ \A k \in 2..Len(extracted) : extracted[k] = None

C20_StillDispatched ==
    (HelpAt(TplQPing) # {} /\ Dispatched(MsgQHelpPing)) =>
        /\ matched # None
        /\ matched[1].handler =
              Command(registered[Max(HelpAt(TplQPing))].guard, Max(HelpAt(TplQPing)))
        /\ \A k \in 1..Len(handlerCalls) : handlerCalls[k].ptr = Max(HelpAt(TplQPing))

C20_HelpAfterExtraction ==
    [][C20_HelpStep]_vars /\ [](C20_ListingStaysAbsent /\ C20_StillDispatched)

\* menu(), then help, then menu() again, then "?help ping" served
C20_Witness ==
    /\ Len(extracted) = 2
    /\ extracted[1] = Some({})
    /\ extracted[2] = None
    /\ HelpAt(TplQPing) = {1}
    /\ menu = None
    /\ Dispatched(MsgQHelpPing)
    /\ Len(handlerCalls) = 1
    /\ handlerCalls[1].ptr = 1

(***************************************************************************)
(* C11.  Registering a malformed template is rejected and compiles no      *)
(* accepting path: with "run (backtick)code" (an unterminated code fence)  *)
(* or "={}" (an empty key name) the only template passed to add, no input  *)
(* is ever matched, the text of the template itself included.              *)
(***************************************************************************)
MalformedTemplates == {TplRunOpen, TplEqBraces}

C11_MalformedRejected ==
    \A t \in MalformedTemplates :
        (NoTemplateBut(t) /\ call = "process") => matched = None

(***************************************************************************)
(* C14.  With "cfg set a={} b={}" the single template, an input is         *)
(* accepted only if its flags form a prefix of the declared order: of the  *)
(* inputs probed, only "cfg set", "cfg set a=1" and "cfg set a=1 b=2" are  *)
(* matched.                                                                *)
(***************************************************************************)
DeclaredPrefixes == {MsgCfg0, MsgCfg1, MsgCfg2}

OtherFlagRuns == {MsgCfgBA, MsgCfgB, MsgCfgAA}

C14_OnlyDeclaredOrder ==
    (OnlyTemplate(TplCfg) /\ call = "process" /\ matched # None) =>
        message \in DeclaredPrefixes

(***************************************************************************)
(* C14, as amended.  With "cfg set a={} b={}" the single template, an      *)
(* input whose flags are a prefix of the declared order is accepted, and   *)
(* so is one that gives the declared flags in another order, skips an      *)
(* earlier flag or repeats a flag; each is bound to the template's         *)
(* handler.  A flag that was not declared is not accepted.                 *)
(***************************************************************************)
C14_AnyRunOfDeclaredFlags ==
    OnlyTemplate(TplCfg) =>
        /\ \A input \in DeclaredPrefixes \cup OtherFlagRuns :
              Probed(input) =>
                  /\ matched # None
                  /\ EndsFinal(input)
                  /\ matched[1].handler = Command(AlwaysGuard, 1)
        /\ Probed(MsgCfgC) => matched = None

C14_Witness ==
    /\ OnlyTemplate(TplCfg)
    /\ Probed(MsgCfgBA)
    /\ matched # None
    /\ Names(matched[1].params) = {NameA, NameB}

(***************************************************************************)
(* C15.  The value captured for a dynamic placeholder is one token free of *)
(* whitespace: with "say {msg}" the only template, the value bound to msg  *)
(* in any match result holds neither a space nor a newline.                *)
(***************************************************************************)
C15_DynamicValueNoWhitespace ==
    (NoTemplateBut(TplSay) /\ call = "process" /\ matched # None) =>
        /\ NameMsg \in Names(matched[1].params)
        /\ \A k \in 1..Len(Lookup(matched[1].params, NameMsg)) :
              Lookup(matched[1].params, NameMsg)[k] \notin {" ", "\n"}

(***************************************************************************)
(* C16.  Between two segments the matcher accepts any run of one or more   *)
(* of space and newline and nothing else: with "ping loud" the single      *)
(* template, "ping loud", "ping   loud" and "ping\nloud" are matched, and  *)
(* "pingloud", "ping\tloud" and " ping loud" are not; the template         *)
(* "ping  loud" compiles to the automaton of "ping loud".                  *)
(***************************************************************************)
C16_InterSegmentWhitespace ==
    /\ OnlyTemplate(TplPingLoud) =>
          /\ \A input \in {MsgPingLoud, MsgPing3Loud, MsgPingNlLoud} :
                Probed(input) =>
                    matched # None /\ matched[1].handler = Command(AlwaysGuard, 1)
          /\ \A input \in {MsgPingloud, MsgPingTabLoud, MsgSpPingLoud} :
                Probed(input) => matched = None
    /\ OnlyTemplate(TplPingLoud2) =>
          /\ state_machine =
                add_protected(StateMachineNew, TplPingLoud, Command(AlwaysGuard, 1))
          /\ Probed(MsgPing3Loud) => matched # None
          /\ Probed(MsgPingloud) => matched = None

C16_Witness ==
    /\ OnlyTemplate(TplPingLoud2)
    /\ Probed(MsgPingNlLoud)
    /\ matched # None

(***************************************************************************)
(* C19.  Registering a further template with a different text never        *)
(* changes the binding of an input that was accepted before: for every     *)
(* input the automaton accepted before the registration, the handler and   *)
(* guard selected after it are the same.                                   *)
(***************************************************************************)
RegisteredTexts == { registered[k].command : k \in 1..Len(registered) }

NewTextRegisteredNow ==
    /\ Len(registered') = Len(registered) + 1
    /\ Last(registered').command \notin RegisteredTexts

C19_BindingKept ==
    NewTextRegisteredNow =>
        \A input \in MessagesB :
            process(state_machine, input) # None =>
                /\ process(state_machine', input) # None
                /\ process(state_machine', input)[1].handler =
                      process(state_machine, input)[1].handler

C19_EarlierBindingsKept == [][C19_BindingKept]_vars

(***************************************************************************)
(* C18.  After start-up, calls of execute that run at the same time do not *)
(* influence each other: no step of a call changes the automaton or the    *)
(* help listing, a step changes the locals of one call only, and under     *)
(* every interleaving the match, the params and the callback invoked by a  *)
(* call are those the same message gives when it is served alone.          *)
(***************************************************************************)
\* the match of the message of d when it is served alone
Alone(d) ==
    IF Gate(d.message, d.own) THEN process(state_machine, d.message) ELSE None

\* the callbacks of a call that is served alone, given what its guard returned
AloneCalls(d) ==
    IF Alone(d) = None \/ d.guardResult = None
    THEN <<>>
    ELSE IF d.guardResult[1].result = "OkTrue"
    THEN <<[kind |-> "handler", ptr |-> Alone(d)[1].handler.ptr,
            params |-> Alone(d)[1].params]>>
    ELSE IF d.guardResult[1].result = "OkFalse"
    THEN <<[kind |-> "unauthorized", ptr |-> 0, params |-> {}]>>
    ELSE <<>>

C18_AsAlone ==
    \A w \in Workers :
        LET d == dispatches[w] IN
        /\ d.pc = "scan" =>
              /\ d.i <= Len(Path(state_machine, d.message, 1, 0))
              /\ d.state = Path(state_machine, d.message, 1, 0)[d.i]
        /\ d.pc \in {"authorize", "call", "reply", "done"} => d.matched = Alone(d)
        /\ d.pc \in {"call", "reply"} =>
              /\ d.guardResult # None
              /\ d.guardResult[1].params = Alone(d)[1].params
              /\ d.guardResult[1].result \in GuardOutcomes(Alone(d)[1].handler.guard)
              /\ d.calls = <<>>
        /\ d.pc = "done" =>
              /\ (d.guardResult = None) <=> (Alone(d) = None)
              /\ d.calls = AloneCalls(d)

C18_StepOfOneCall ==
    dispatches' # dispatches =>
        /\ state_machine' = state_machine
        /\ menu' = menu
        /\ registered' = registered
        /\ Cardinality({ w \in Workers : dispatches'[w] # dispatches[w] }) = 1

C18_ConcurrentDispatches == [][C18_StepOfOneCall]_vars /\ []C18_AsAlone

\* two calls in flight at once: one in the middle of a capture, the other
\* about to call its handler
C18_Witness ==
    /\ dispatches[1].pc = "scan"
    /\ dispatches[1].message = MsgQSayHi
    /\ dispatches[1].i = 7
    /\ NameMsg \in Names(dispatches[1].params)
    /\ dispatches[2].pc = "call"
    /\ dispatches[2].message = MsgQPing

====
